---- MODULE Spec2Model ----
(***************************************************************************)
(* Model of the ball simulation engine of src/logic.py (class GameLogic    *)
(* with its Color and Ball dataclasses).                                   *)
(*                                                                         *)
(* Python objects are modelled as a heap: objs maps an object handle to    *)
(* the field values of a Ball, and the lists balls and inventory hold      *)
(* handles.  Ball and Color are @dataclass, so "==", "in" and list.remove  *)
(* compare field values, never identity; the model keeps that difference.  *)
(*                                                                         *)
(* Floats are fixed-point integers: a length, coordinate, velocity or dt   *)
(* v is stored as v * Scale, products are truncated towards zero.          *)
(***************************************************************************)
EXTENDS Integers, Sequences, FiniteSets, TLC

\* ------------------------------------------------------------------ bounds
\* fixed-point resolution: stored value = real value * Scale
Scale == 10
\* total number of add_ball calls in a run
MaxBalls == 2
\* total number of calls made to the engine in a run
MaxSteps == 5
\* the same for runs that only add, drag and eject
MaxListSteps == 7
\* how far around 0 and around 255 raw channel values are probed
ChannelProbe == 2
\* number of balls, and of update calls, in the runs that only update
MaxPhysBalls == 2
MaxPhysSteps == 2
MaxColorSteps == 2
MaxDropSteps == 4
MaxGameBalls == 2
MaxGameSteps == 4

\* rounding allowance of the fixed-point separation, in units of 1/Scale pixel
SepTol == 3

\* ------------------------------------------------------------- arithmetic
Abs(a) == IF a < 0 THEN -a ELSE a

\* integer division truncating towards zero (Python int() of a quotient)
TruncDiv(a, b) == IF a >= 0 THEN a \div b ELSE -((-a) \div b)

\* product of a fixed-point value with a rational constant <<num, den>>
Mul(v, q) == TruncDiv(v * q[1], q[2])

\* product of two fixed-point values
FMul(a, b) == TruncDiv(a * b, Scale)

\* fixed-point representation of a whole number of pixels
Px(n) == n * Scale

RECURSIVE SqrtSearch(_, _, _)
SqrtSearch(n, lo, hi) ==
    IF lo >= hi THEN lo
    ELSE LET mid == (lo + hi + 1) \div 2
         IN  IF mid * mid <= n THEN SqrtSearch(n, mid, hi)
                               ELSE SqrtSearch(n, lo, mid - 1)

\* math.sqrt on a fixed-point square: floor of the square root
Sqrt(n) == SqrtSearch(n, 0, 46340)

\* (ax - bx)**2 + (ay - by)**2
Dist2(ax, ay, bx, by) == (ax - bx) * (ax - bx) + (ay - by) * (ay - by)

Max2(a, b) == IF a > b THEN a ELSE b
Min2(a, b) == IF a < b THEN a ELSE b

\* -------------------------------------------------------------- BallState
FREE == "free"
IN_INVENTORY == "in_inventory"
BEING_DRAGGED == "being_dragged"

\* Optional[Ball] = None; object handles are 1, 2, ...
None == 0

\* variant of Clamp: min(255, ...) is left out
Clamp_NoUpper(c) == IF c < 0 THEN 0 ELSE c

\* ------------------------------------------------------------------ Color
Clamp(c) == Max2(0, Min2(255, c))

\* Color(r, g, b) with __post_init__
Color(r, g, b) == [r |-> Clamp(r), g |-> Clamp(g), b |-> Clamp(b)]

\* variant of mix_with: the average is rounded up
mix_with_Ceil(a, b) ==
    Color(TruncDiv(a.r + b.r + 1, 2), TruncDiv(a.g + b.g + 1, 2),
          TruncDiv(a.b + b.b + 1, 2))

mix_with(a, b) ==
    Color(TruncDiv(a.r + b.r, 2), TruncDiv(a.g + b.g, 2), TruncDiv(a.b + b.b, 2))

\* floats in 0 .. 1 returned by the color methods are rationals <<num, den>>
Less(p, q) == p[1] * q[2] < q[1] * p[2]

get_brightness(c) == <<c.r + c.g + c.b, 3 * 255>>

is_white(c) == c.r > 200 /\ c.g > 200 /\ c.b > 200

get_saturation(c) ==
    LET max_component == Max2(c.r, Max2(c.g, c.b))
        min_component == Min2(c.r, Min2(c.g, c.b))
    IN  IF max_component > 0 THEN <<max_component - min_component, 255>>
                             ELSE <<0, 1>>

\* ----------------------------------------------------- physical constants
friction == <<98, 100>>
bounce_damping == <<8, 10>>
gravity == <<2, 10>>
\* the flick factor of end_drag
flick == <<1, 10>>

delete_zone_height == 50
inventory_radius == 30

\* ----------------------------------------------------------- input draws
\* constructor arguments (screen_width, screen_height): the defaults, and
\* an arena low enough for the delete zone to reach the inventory target
Arenas == {<<800, 600>>, <<200, 120>>}

\* add_ball positions: AddPoints[2] overlaps AddPoints[1] for radius 20
AddPoints == {<<60, 40>>, <<70, 40>>}
AddRadii == {20}

\* outcomes of the random draws of one add_ball call: random.uniform(-3, 3)
\* for vx and vy, the three random.randint(min_color_value, max_color_value)
\* of generate_random_color, its random.uniform(min_brightness,
\* max_brightness) in tenths, and the random.randint(1000, 9999) of the id
RandDraws ==
    {[vx |-> 3, vy |-> 0 - 3, rgb |-> <<200, 100, 50>>, t |-> 9, id |-> 1000],
     [vx |-> 3, vy |-> 0 - 3, rgb |-> <<255, 255, 255>>, t |-> 9, id |-> 1000],
     [vx |-> 0 - 3, vy |-> 3, rgb |-> <<200, 50, 50>>, t |-> 9, id |-> 1001]}

\* update's dt, fixed-point
DtDraws == {Scale}

\* the fields of GameLogic, the heap of Ball objects, the call budget, the
\* last call made, and is_dragging of BallGame
VARIABLES screen_width, screen_height, objs, balls, inventory,
          dragged_ball, drag_offset_x, drag_offset_y, created, steps, last,
          is_dragging

vars == <<screen_width, screen_height, objs, balls, inventory,
          dragged_ball, drag_offset_x, drag_offset_y, created, steps, last,
          is_dragging>>

delete_zone_y == Px(screen_height - 50)
inventory_x == Px(screen_width - 100)
inventory_y == Px(50)

\* cursor positions: on the first ball, on the second ball only, the centre
\* of the inventory target, and a point of the delete zone below it
MousePoints ==
    {<<Px(60), Px(40)>>, <<Px(85), Px(40)>>,
     <<inventory_x, inventory_y>>, <<inventory_x, delete_zone_y>>}

\* outcomes of eject's random position and velocity
EjectDraws ==
    {<<Px(50), Px(50), Px(-2), Px(2)>>,
     <<Px(screen_width - 50), Px(150), Px(2), Px(-2)>>}

\* ------------------------------------------------------------------- Init
Init ==
    /\ \E a \in Arenas : screen_width = a[1] /\ screen_height = a[2]
    /\ objs = <<>>
    /\ balls = <<>>
    /\ inventory = <<>>
    /\ dragged_ball = None
    /\ drag_offset_x = 0
    /\ drag_offset_y = 0
    /\ created = 0
    /\ steps = MaxSteps
    /\ last = [op |-> "init", x |-> 0, y |-> 0, ret |-> "None", ball |-> None]
    /\ is_dragging = FALSE

\* every call of the engine's interface takes one step of the run's budget;
\* steps is the number of calls left
Tick == steps > 0 /\ steps' = steps - 1

\* --------------------------------------------------------------- add_ball
\* brightness outside [0.4, 0.9]:  (r+g+b)/(3*255) < 4/10 or > 9/10
OutOfBrightness(c) ==
    \/ 10 * (c.r + c.g + c.b) < 4 * 3 * 255
    \/ 10 * (c.r + c.g + c.b) > 9 * 3 * 255

\* int(channel * target / current_brightness), target in tenths
Rescale(ch, t, c) == TruncDiv(ch * t * 3 * 255, 10 * (c.r + c.g + c.b))

generate_random_color(rgb, t) ==
    LET color == Color(rgb[1], rgb[2], rgb[3])
    IN  IF OutOfBrightness(color)
        THEN Color(Rescale(color.r, t, color), Rescale(color.g, t, color),
                   Rescale(color.b, t, color))
        ELSE color

\* Ball(...) with __post_init__: a fresh object, id drawn at random
Ball(x, y, vx, vy, radius, color, id) ==
    [x |-> x, y |-> y, vx |-> vx, vy |-> vy, radius |-> radius,
     color |-> color, state |-> FREE, id |-> id]

\* extend the heap by one object
Alloc(o, h, b) == [k \in (DOMAIN o) \cup {h} |-> IF k = h THEN b ELSE o[k]]

add_ball ==
    /\ Tick
    /\ UNCHANGED is_dragging
    /\ created < MaxBalls
    /\ \E p \in AddPoints, rad \in AddRadii, d \in RandDraws :
          LET h == created + 1
              b == Ball(Px(p[1]), Px(p[2]), Px(d.vx), Px(d.vy), Px(rad),
                        generate_random_color(d.rgb, d.t), d.id)
          IN  /\ objs' = Alloc(objs, h, b)
              /\ balls' = Append(balls, h)
              /\ created' = h
              /\ last' = [op |-> "add_ball", x |-> b.x, y |-> b.y,
                          ret |-> "Ball", ball |-> h]
    /\ UNCHANGED <<screen_width, screen_height, inventory, dragged_ball,
                   drag_offset_x, drag_offset_y>>

\* ----------------------------------------------------------------- update
\* variant of update_ball_physics: friction is applied to the radius as well
update_ball_physics_Shrinks(o, b, dt) ==
    LET vy1 == o[b].vy + Mul(dt, gravity)
    IN  [o EXCEPT ![b].x = @ + FMul(o[b].vx, dt),
                  ![b].y = @ + FMul(vy1, dt),
                  ![b].vx = Mul(@, friction),
                  ![b].vy = Mul(vy1, friction),
                  ![b].radius = Mul(@, friction)]

\* _update_ball_physics(ball, dt) on heap o
update_ball_physics(o, b, dt) ==
    LET vy1 == o[b].vy + Mul(dt, gravity)
        x1  == o[b].x + FMul(o[b].vx, dt)
        y1  == o[b].y + FMul(vy1, dt)
    IN  [o EXCEPT ![b].x = x1, ![b].y = y1,
                  ![b].vx = Mul(o[b].vx, friction),
                  ![b].vy = Mul(vy1, friction)]

\* _mix_ball_colors(ball1, ball2)
mix_ball_colors(o, b1, b2) ==
    LET mixed_color == mix_with(o[b1].color, o[b2].color)
    IN  [o EXCEPT ![b1].color = mixed_color, ![b2].color = mixed_color]

\* variant of SkipOther: the scan forgets to test the other ball's state
SkipOther_AnyState(o, b, other) == o[other] = o[b]

\* the skip test of the collision scan: dataclass "==" compares field values
SkipOther(o, b, other) == o[other] = o[b] \/ o[other].state # FREE

\* variant of CollidePair: each ball is moved by the whole overlap
CollidePair_FullOverlap(o, b, other) ==
    LET d2 == Dist2(o[b].x, o[b].y, o[other].x, o[other].y)
        min_distance == o[b].radius + o[other].radius
    IN  IF SkipOther(o, b, other) THEN o
        ELSE IF d2 < min_distance * min_distance /\ d2 > 0
        THEN LET distance == Sqrt(d2 * 10000)
                 overlap == 100 * min_distance - distance
                 separation_x ==
                     TruncDiv((o[b].x - o[other].x) * overlap, distance)
                 separation_y ==
                     TruncDiv((o[b].y - o[other].y) * overlap, distance)
                 m == mix_ball_colors(o, b, other)
             IN  [m EXCEPT ![b].x = @ + separation_x,
                           ![b].y = @ + separation_y,
                           ![other].x = @ - separation_x,
                           ![other].y = @ - separation_y]
        ELSE o

\* body of the loop of _check_collisions for one other; the distance is
\* taken in hundredths of a fixed-point unit
CollidePair(o, b, other) ==
    LET d2 == Dist2(o[b].x, o[b].y, o[other].x, o[other].y)
        min_distance == o[b].radius + o[other].radius
    IN  IF SkipOther(o, b, other) THEN o
        ELSE IF d2 < min_distance * min_distance /\ d2 > 0
        THEN LET distance == Sqrt(d2 * 10000)
                 overlap == 100 * min_distance - distance
                 separation_x ==
                     TruncDiv((o[b].x - o[other].x) * overlap, 2 * distance)
                 separation_y ==
                     TruncDiv((o[b].y - o[other].y) * overlap, 2 * distance)
                 m == mix_ball_colors(o, b, other)
             IN  [m EXCEPT ![b].x = @ + separation_x,
                           ![b].y = @ + separation_y,
                           ![other].x = @ - separation_x,
                           ![other].y = @ - separation_y]
        ELSE o

RECURSIVE CollideFrom(_, _, _, _)
CollideFrom(o, bs, b, j) ==
    IF j > Len(bs) THEN o
    ELSE CollideFrom(CollidePair(o, b, bs[j]), bs, b, j + 1)

\* _check_collisions(ball): for other in self.balls
check_collisions(o, bs, b) == CollideFrom(o, bs, b, 1)

\* variant of check_boundaries: the velocity is negated, without abs()
check_boundaries_NoAbs(o, b, w, h) ==
    LET bl == o[b]
        hx == IF bl.x - bl.radius < 0
              THEN [bl EXCEPT !.x = bl.radius,
                              !.vx = Mul(0 - bl.vx, bounce_damping)]
              ELSE IF bl.x + bl.radius > Px(w)
              THEN [bl EXCEPT !.x = Px(w) - bl.radius,
                              !.vx = Mul(0 - bl.vx, bounce_damping)]
              ELSE bl
        hy == IF hx.y - hx.radius < 0
              THEN [hx EXCEPT !.y = hx.radius,
                              !.vy = Mul(0 - hx.vy, bounce_damping)]
              ELSE IF hx.y + hx.radius > Px(h)
              THEN [hx EXCEPT !.y = Px(h) - hx.radius,
                              !.vy = Mul(0 - hx.vy, bounce_damping)]
              ELSE hx
    IN  [o EXCEPT ![b] = hy]

\* _check_boundaries(ball) in an arena of w x h pixels
check_boundaries(o, b, w, h) ==
    LET bl == o[b]
        hx == IF bl.x - bl.radius < 0
              THEN [bl EXCEPT !.x = bl.radius,
                              !.vx = Mul(Abs(bl.vx), bounce_damping)]
              ELSE IF bl.x + bl.radius > Px(w)
              THEN [bl EXCEPT !.x = Px(w) - bl.radius,
                              !.vx = Mul(-Abs(bl.vx), bounce_damping)]
              ELSE bl
        hy == IF hx.y - hx.radius < 0
              THEN [hx EXCEPT !.y = hx.radius,
                              !.vy = Mul(Abs(hx.vy), bounce_damping)]
              ELSE IF hx.y + hx.radius > Px(h)
              THEN [hx EXCEPT !.y = Px(h) - hx.radius,
                              !.vy = Mul(-Abs(hx.vy), bounce_damping)]
              ELSE hx
    IN  [o EXCEPT ![b] = hy]

\* body of the loop of update for the ball at index i
\* variant of UpdateBall: the boundary check is left out
UpdateBall_NoBoundaries(o, bs, b, dt, w, h) ==
    IF o[b].state = FREE
    THEN check_collisions(update_ball_physics(o, b, dt), bs, b)
    ELSE o

UpdateBall(o, bs, b, dt, w, h) ==
    IF o[b].state = FREE
    THEN check_boundaries(
             check_collisions(update_ball_physics(o, b, dt), bs, b), b, w, h)
    ELSE o

RECURSIVE UpdateFrom(_, _, _, _, _, _)
UpdateFrom(o, bs, i, dt, w, h) ==
    IF i > Len(bs) THEN o
    ELSE UpdateFrom(UpdateBall(o, bs, bs[i], dt, w, h), bs, i + 1, dt, w, h)

update ==
    /\ Tick
    /\ UNCHANGED is_dragging
    /\ \E dt \in DtDraws :
          /\ objs' = UpdateFrom(objs, balls, 1, dt, screen_width, screen_height)
          /\ last' = [op |-> "update", x |-> dt, y |-> 0,
                      ret |-> "None", ball |-> None]
    /\ UNCHANGED <<screen_width, screen_height, balls, inventory, dragged_ball,
                   drag_offset_x, drag_offset_y, created>>

\* ------------------------------------------------------------- start_drag
\* the test of the scan of start_drag for one ball
Grabs(o, b, mx, my) ==
    /\ o[b].state = FREE
    /\ Dist2(o[b].x, o[b].y, mx, my) <= o[b].radius * o[b].radius

\* variant of GrabScan: the list is scanned from its first element
GrabScan_Forward(o, bs, i, mx, my) ==
    LET S == {k \in 1 .. i : Grabs(o, bs[k], mx, my)}
    IN  IF S = {} THEN 0 ELSE CHOOSE k \in S : \A l \in S : k <= l

\* for ball in reversed(self.balls): index of the first hit, 0 when none
RECURSIVE GrabScan(_, _, _, _, _)
GrabScan(o, bs, i, mx, my) ==
    IF i = 0 THEN 0
    ELSE IF Grabs(o, bs[i], mx, my) THEN i
    ELSE GrabScan(o, bs, i - 1, mx, my)

\* start_drag(mouse_x, mouse_y) of GameLogic
start_drag_call(mx, my) ==
    LET i == GrabScan(objs, balls, Len(balls), mx, my)
    IN  /\ IF i # 0
           THEN LET b == balls[i]
                IN  /\ dragged_ball' = b
                    /\ objs' = [objs EXCEPT ![b].state = BEING_DRAGGED]
                    /\ drag_offset_x' = objs[b].x - mx
                    /\ drag_offset_y' = objs[b].y - my
                    /\ last' = [op |-> "start_drag", x |-> mx, y |-> my,
                                ret |-> "True", ball |-> b]
           ELSE /\ UNCHANGED <<dragged_ball, objs, drag_offset_x,
                               drag_offset_y>>
                /\ last' = [op |-> "start_drag", x |-> mx, y |-> my,
                            ret |-> "False", ball |-> None]
        /\ UNCHANGED <<screen_width, screen_height, balls, inventory,
                       created>>

start_drag ==
    /\ Tick
    /\ UNCHANGED is_dragging
    /\ \E m \in MousePoints : start_drag_call(m[1], m[2])

\* -------------------------------------------------------------- drag_ball
\* drag_ball(mouse_x, mouse_y) of GameLogic
drag_ball_call(mx, my) ==
    /\ IF dragged_ball # None /\ objs[dragged_ball].state = BEING_DRAGGED
       THEN objs' = [objs EXCEPT ![dragged_ball].x = mx + drag_offset_x,
                                 ![dragged_ball].y = my + drag_offset_y]
       ELSE UNCHANGED objs
    /\ last' = [op |-> "drag_ball", x |-> mx, y |-> my,
                ret |-> "None", ball |-> dragged_ball]
    /\ UNCHANGED <<screen_width, screen_height, balls, inventory,
                   dragged_ball, drag_offset_x, drag_offset_y, created>>

drag_ball ==
    /\ Tick
    /\ UNCHANGED is_dragging
    /\ \E m \in MousePoints : drag_ball_call(m[1], m[2])

\* --------------------------------------------------------------- end_drag
\* the handles a list holds
Range(seq) == {seq[i] : i \in DOMAIN seq}

\* list index (1-based) of the first element equal by value to v, 0 if none
IndexOfEqual(o, seq, v) ==
    IF \E i \in DOMAIN seq : o[seq[i]] = v
    THEN CHOOSE i \in DOMAIN seq :
             /\ o[seq[i]] = v
             /\ \A j \in 1 .. (i - 1) : o[seq[j]] # v
    ELSE 0

\* the list without its element at index i (1-based)
RemoveAt(seq, i) ==
    [k \in 1 .. (Len(seq) - 1) |-> IF k < i THEN seq[k] ELSE seq[k + 1]]

\* list.remove(ball) where an equal element exists
ListRemove(o, seq, v) == RemoveAt(seq, IndexOfEqual(o, seq, v))

\* the objects still referenced from the two lists
Collect(o, bs, inv) == [k \in Range(bs) \cup Range(inv) |-> o[k]]

\* _is_in_delete_zone(x, y)
is_in_delete_zone(x, y) ==
    y >= delete_zone_y /\ y <= delete_zone_y + Px(delete_zone_height)

\* the inventory test of end_drag: distance_to_inventory <= inventory_radius
is_in_inventory_target(x, y) ==
    Dist2(x, y, inventory_x, inventory_y)
        <= Px(inventory_radius) * Px(inventory_radius)

\* _delete_ball(ball): the two lists afterwards
delete_ball(o, bs, inv, b) ==
    LET bs1  == IF IndexOfEqual(o, bs, o[b]) # 0
                THEN ListRemove(o, bs, o[b]) ELSE bs
        inv1 == IF IndexOfEqual(o, inv, o[b]) # 0
                THEN ListRemove(o, inv, o[b]) ELSE inv
    IN  [balls |-> bs1, inventory |-> inv1]

\* variant of add_to_inventory: the ball is appended to the inventory but
\* never removed from the active list
add_to_inventory_NoRemove(o, bs, inv, b) ==
    [objs |-> [o EXCEPT ![b].state = IN_INVENTORY], balls |-> bs,
     inventory |-> Append(inv, b), raised |-> FALSE]

\* variant of add_to_inventory: balls.pop() in place of balls.remove(ball)
add_to_inventory_PopLast(o, bs, inv, b) ==
    [objs |-> [o EXCEPT ![b].state = IN_INVENTORY],
     balls |-> RemoveAt(bs, Len(bs)),
     inventory |-> Append(inv, b), raised |-> FALSE]

\* variant of add_to_inventory: the ball leaves the active list but is never
\* appended to the inventory
add_to_inventory_NoAppend(o, bs, inv, b) ==
    LET o1 == [o EXCEPT ![b].state = IN_INVENTORY]
    IN  [objs |-> o1, balls |-> ListRemove(o1, bs, o1[b]),
         inventory |-> inv, raised |-> FALSE]

\* _add_to_inventory(ball): heap and lists afterwards; list.remove raises
\* ValueError when no element of balls equals the ball
add_to_inventory(o, bs, inv, b) ==
    LET o1 == [o EXCEPT ![b].state = IN_INVENTORY]
    IN  IF IndexOfEqual(o1, bs, o1[b]) = 0
        THEN [objs |-> o1, balls |-> bs, inventory |-> inv, raised |-> TRUE]
        ELSE [objs |-> o1, balls |-> ListRemove(o1, bs, o1[b]),
              inventory |-> Append(inv, b), raised |-> FALSE]

\* variant of return_ball: the flick points from the cursor to the ball
return_ball_Reversed(o, b, mx, my) ==
    [o EXCEPT ![b].state = FREE,
              ![b].vx = Mul(o[b].x - mx, flick),
              ![b].vy = Mul(o[b].y - my, flick)]

\* the else branch of end_drag: back to FREE with the flick velocity
return_ball(o, b, mx, my) ==
    [o EXCEPT ![b].state = FREE,
              ![b].vx = Mul(mx - o[b].x, flick),
              ![b].vy = Mul(my - o[b].y, flick)]

\* end_drag(mouse_x, mouse_y) of GameLogic
end_drag_call(mx, my) ==
    /\ IF dragged_ball = None
       THEN /\ UNCHANGED <<objs, balls, inventory, dragged_ball>>
            /\ last' = [op |-> "end_drag", x |-> mx, y |-> my,
                        ret |-> "False", ball |-> None]
       ELSE IF is_in_delete_zone(mx, my)
       THEN LET d == delete_ball(objs, balls, inventory, dragged_ball)
            IN  /\ balls' = d.balls
                /\ inventory' = d.inventory
                /\ objs' = Collect(objs, d.balls, d.inventory)
                /\ dragged_ball' = None
                /\ last' = [op |-> "end_drag", x |-> mx, y |-> my,
                            ret |-> "True", ball |-> dragged_ball]
       ELSE IF is_in_inventory_target(mx, my)
       THEN LET a == add_to_inventory(objs, balls, inventory, dragged_ball)
            IN  /\ objs' = a.objs
                /\ balls' = a.balls
                /\ inventory' = a.inventory
                /\ dragged_ball' = IF a.raised THEN dragged_ball ELSE None
                /\ last' = [op |-> "end_drag", x |-> mx, y |-> my,
                            ret |-> IF a.raised THEN "ValueError" ELSE "True",
                            ball |-> dragged_ball]
       ELSE /\ objs' = return_ball(objs, dragged_ball, mx, my)
            /\ dragged_ball' = None
            /\ UNCHANGED <<balls, inventory>>
            /\ last' = [op |-> "end_drag", x |-> mx, y |-> my,
                        ret |-> "False", ball |-> dragged_ball]
    /\ UNCHANGED <<screen_width, screen_height, drag_offset_x,
                   drag_offset_y, created>>

end_drag ==
    /\ Tick
    /\ UNCHANGED is_dragging
    /\ \E m \in MousePoints : end_drag_call(m[1], m[2])

\* get_delete_zone_info(): the rectangle (0, y, width, height)
get_delete_zone_info ==
    [y |-> delete_zone_y, height |-> Px(delete_zone_height),
     width |-> Px(screen_width)]

\* release points on a grid around the delete zone: left of the arena, in
\* it and right of it; just above the zone, on its two edges, just below
DropPoints ==
    {<<x, y>> : x \in {Px(0 - 10), Px(60), Px(screen_width + 10)},
                y \in {delete_zone_y - 1, delete_zone_y,
                       delete_zone_y + Px(delete_zone_height),
                       delete_zone_y + Px(delete_zone_height) + 1}}

\* end_drag called with a release point of DropPoints
end_drag_anywhere ==
    /\ Tick
    /\ UNCHANGED is_dragging
    /\ \E m \in DropPoints : end_drag_call(m[1], m[2])

\* ---------------------------------------------- eject_ball_from_inventory
\* the indices tried: one below the range, the range, one above
EjectIndices == (0 - 1) .. MaxBalls

\* variant of index_in_range: the lower bound is not tested
index_in_range_NoLower(idx, inv) == idx < Len(inv)

\* the guard of eject_ball_from_inventory: 0 <= inventory_index < len(...)
index_in_range(idx, inv) == 0 <= idx /\ idx < Len(inv)

\* variant of PopPosition: pop() without the index
PopPosition_Last(idx, inv) == Len(inv)

\* list.pop(index): the 1-based position it removes, 0 when it raises
\* IndexError (Python counts a negative index from the end)
PopPosition(idx, inv) ==
    IF 0 <= idx /\ idx < Len(inv) THEN idx + 1
    ELSE IF idx < 0 /\ 0 - idx <= Len(inv) THEN Len(inv) + idx + 1
    ELSE 0

eject_ball_from_inventory ==
    /\ Tick
    /\ UNCHANGED is_dragging
    /\ \E idx \in EjectIndices, d \in EjectDraws :
       /\ IF index_in_range(idx, inventory)
          THEN IF PopPosition(idx, inventory) = 0
               THEN /\ UNCHANGED <<objs, balls, inventory>>
                    /\ last' = [op |-> "eject", x |-> idx, y |-> 0,
                                ret |-> "IndexError", ball |-> None]
               ELSE LET b == inventory[PopPosition(idx, inventory)]
                    IN  /\ inventory' =
                               RemoveAt(inventory, PopPosition(idx, inventory))
                        /\ objs' = [objs EXCEPT ![b].state = FREE,
                                                ![b].x = d[1], ![b].y = d[2],
                                                ![b].vx = d[3], ![b].vy = d[4]]
                        /\ balls' = Append(balls, b)
                        /\ last' = [op |-> "eject", x |-> idx, y |-> 0,
                                    ret |-> "True", ball |-> b]
          ELSE /\ UNCHANGED <<objs, balls, inventory>>
               /\ last' = [op |-> "eject", x |-> idx, y |-> 0,
                           ret |-> "False", ball |-> None]
       /\ UNCHANGED <<screen_width, screen_height, dragged_ball, drag_offset_x,
                      drag_offset_y, created>>

\* -------------------------------------------------------- clear_all_balls
clear_all_balls ==
    /\ Tick
    /\ UNCHANGED is_dragging
    /\ balls' = <<>>
    /\ inventory' = <<>>
    /\ objs' = <<>>
    /\ dragged_ball' = None
    /\ last' = [op |-> "clear_all_balls", x |-> 0, y |-> 0,
                ret |-> "None", ball |-> None]
    /\ UNCHANGED <<screen_width, screen_height, drag_offset_x, drag_offset_y,
                   created>>

Next ==
    \/ add_ball
    \/ update
    \/ start_drag
    \/ drag_ball
    \/ end_drag
    \/ eject_ball_from_inventory
    \/ clear_all_balls

Spec == Init /\ [][Next]_vars

\* runs in the low arena that only add, drag and eject: fewer kinds of call,
\* more of them
InitLists ==
    /\ screen_width = 200
    /\ screen_height = 120
    /\ objs = <<>>
    /\ balls = <<>>
    /\ inventory = <<>>
    /\ dragged_ball = None
    /\ drag_offset_x = 0
    /\ drag_offset_y = 0
    /\ created = 0
    /\ steps = MaxListSteps
    /\ last = [op |-> "init", x |-> 0, y |-> 0, ret |-> "None", ball |-> None]
    /\ is_dragging = FALSE

NextLists ==
    \/ add_ball
    \/ start_drag
    \/ end_drag
    \/ eject_ball_from_inventory

SpecLists == InitLists /\ [][NextLists]_vars

\* runs that only update: the engine in the low arena after up to
\* MaxPhysBalls add_ball calls at points on, near and past the walls; the
\* balls are FREE, with the velocities and colours add_ball can draw
PhysXs == {15, 45, 190}
PhysYs == {15, 45, 110}
PhysDraws ==
    {[vx |-> 3, vy |-> 0 - 3,
      color |-> generate_random_color(<<200, 100, 50>>, 9)],
     [vx |-> 0 - 3, vy |-> 3,
      color |-> generate_random_color(<<200, 50, 50>>, 9)],
     [vx |-> 0, vy |-> 0,
      color |-> generate_random_color(<<255, 255, 255>>, 9)]}

PhysBall(x, y, d, h) ==
    Ball(Px(x), Px(y), Px(d.vx), Px(d.vy), Px(20), d.color, 1000 + h)

InitPhys ==
    /\ screen_width = 200
    /\ screen_height = 120
    /\ \E n \in 1 .. MaxPhysBalls :
          /\ balls = [h \in 1 .. n |-> h]
          /\ created = n
          /\ \E xs \in [1 .. n -> PhysXs], ys \in [1 .. n -> PhysYs],
                ds \in [1 .. n -> PhysDraws] :
                objs = [h \in 1 .. n |-> PhysBall(xs[h], ys[h], ds[h], h)]
    /\ inventory = <<>>
    /\ dragged_ball = None
    /\ drag_offset_x = 0
    /\ drag_offset_y = 0
    /\ steps = MaxPhysSteps
    /\ last = [op |-> "init", x |-> 0, y |-> 0, ret |-> "None", ball |-> None]
    /\ is_dragging = FALSE

NextPhys == update

SpecPhys == InitPhys /\ [][NextPhys]_vars

\* ------------------------------------------------- get_ball_quality_score
\* brightness * saturation ** 0.5 * (0.7 + 0.3 * balance), in thousandths
Quality(c) ==
    LET brightness == get_brightness(c)
        saturation == get_saturation(c)
        root == Sqrt((saturation[1] * 1000000) \div saturation[2])
        spread == Abs(Max2(c.r, Max2(c.g, c.b)) - Min2(c.r, Min2(c.g, c.b)))
        factor == <<7 * 255 + 3 * (255 - spread), 10 * 255>>
    IN  Mul(Mul(root, brightness), factor)

\* variant of get_ball_quality_score: the saturation floor is tested first
get_ball_quality_score_FloorFirst(o, b) ==
    LET c == o[b].color
    IN  IF Less(get_saturation(c), <<1, 10>>) THEN <<1, 10>>
        ELSE IF is_white(c) THEN <<0, 1>>
        ELSE <<Min2(1000, Quality(c)), 1000>>

\* get_ball_quality_score(ball) on heap o: a rational <<num, den>>
get_ball_quality_score(o, b) ==
    LET c == o[b].color
    IN  IF is_white(c) THEN <<0, 1>>
        ELSE IF Less(get_saturation(c), <<1, 10>>) THEN <<1, 10>>
        ELSE <<Min2(1000, Quality(c)), 1000>>

\* ------------------------------------------------------------------------
\* The color functions on their own: two FREE balls whose colors are built
\* by Color(r, g, b) from probe channels; the steps are _mix_ball_colors on
\* the two balls and get_ball_quality_score on either.
ProbeChannels == {0, 100, 200, 201, 226, 255}
ProbeOthers == {0, 101, 255}

InitColor ==
    /\ screen_width = 200 /\ screen_height = 120
    /\ balls = <<1, 2>> /\ created = 2
    /\ \E r1, g1, b1 \in ProbeChannels : \E r2, g2, b2 \in ProbeOthers :
          objs = <<Ball(Px(60), Px(40), 0, 0, Px(20), Color(r1, g1, b1), 1001),
                   Ball(Px(150), Px(40), 0, 0, Px(20), Color(r2, g2, b2), 1002)>>
    /\ inventory = <<>>
    /\ dragged_ball = None
    /\ drag_offset_x = 0 /\ drag_offset_y = 0
    /\ steps = MaxColorSteps
    /\ last = [op |-> "init", x |-> 0, y |-> 0, ret |-> "None", ball |-> None]
    /\ is_dragging = FALSE

mix_colors ==
    /\ Tick
    /\ UNCHANGED is_dragging
    /\ objs' = mix_ball_colors(objs, balls[1], balls[2])
    /\ last' = [op |-> "mix_with", x |-> 0, y |-> 0, ret |-> "None",
                ball |-> balls[1]]
    /\ UNCHANGED <<screen_width, screen_height, balls, inventory, dragged_ball,
                   drag_offset_x, drag_offset_y, created>>

\* the returned float num / den is recorded in last.x, last.y
quality_score ==
    /\ Tick
    /\ UNCHANGED is_dragging
    /\ \E b \in Range(balls) :
          LET q == get_ball_quality_score(objs, b)
          IN  last' = [op |-> "get_ball_quality_score", x |-> q[1],
                       y |-> q[2], ret |-> "float", ball |-> b]
    /\ UNCHANGED <<screen_width, screen_height, balls, inventory, dragged_ball,
                   drag_offset_x, drag_offset_y, created, objs>>

NextColor == mix_colors \/ quality_score

SpecColor == InitColor /\ [][NextColor]_vars

\* ------------------------------------------------------------------------
\* Runs of the default arena that add, grab and release, with the release
\* points of DropPoints.
InitDrop ==
    /\ screen_width = 800
    /\ screen_height = 600
    /\ objs = <<>>
    /\ balls = <<>>
    /\ inventory = <<>>
    /\ dragged_ball = None
    /\ drag_offset_x = 0
    /\ drag_offset_y = 0
    /\ created = 0
    /\ steps = MaxDropSteps
    /\ last = [op |-> "init", x |-> 0, y |-> 0, ret |-> "None", ball |-> None]
    /\ is_dragging = FALSE

NextDrop ==
    \/ add_ball
    \/ start_drag
    \/ end_drag_anywhere

SpecDrop == InitDrop /\ [][NextDrop]_vars

\* --------------------------------------------------------------- BallGame
\* The mouse handlers of BallGame on top of the engine. BallGame(width,
\* height) builds GameLogic(width, height - 100); its field dragged_ball is
\* written by the handlers and read nowhere, and is left out.
GameWindows == {<<1000, 700>>}

\* the inventory circle drawn by draw_ui
drawn_inventory_radius == 30
drawn_inventory_x == Px(screen_width - 80)
drawn_inventory_y == Px(20)

\* positions initialize_game gives its balls i = 4, 5, 6
GameBallPoints == <<<<500, 150>>, <<560, 230>>, <<620, 310>>>>

GameBall(h, d) ==
    Ball(Px(GameBallPoints[h][1]), Px(GameBallPoints[h][2]), Px(d.vx),
         Px(d.vy), Px(20), generate_random_color(d.rgb, d.t), 1000 + h)

\* event.pos: the balls' starting centres, the centre of the drawn inventory
\* circle, the centre of the circle end_drag tests, a point inside both
\* circles, and a point of the delete zone
GamePoints ==
    {<<Px(GameBallPoints[h][1]), Px(GameBallPoints[h][2])>> :
        h \in 1 .. MaxGameBalls}
    \cup {<<drawn_inventory_x, drawn_inventory_y>>,
          <<inventory_x, inventory_y>>,
          <<Px(screen_width - 90), Px(35)>>,
          <<Px(500), delete_zone_y + Px(25)>>}

\* the game with some of its initial balls left, no drag in progress
InitGame ==
    /\ \E w \in GameWindows :
          screen_width = w[1] /\ screen_height = w[2] - 100
    /\ \E n \in 1 .. MaxGameBalls :
          /\ balls = [h \in 1 .. n |-> h]
          /\ created = n
          /\ \E ds \in [1 .. n -> RandDraws] :
                objs = [h \in 1 .. n |-> GameBall(h, ds[h])]
    /\ inventory = <<>>
    /\ dragged_ball = None
    /\ drag_offset_x = 0
    /\ drag_offset_y = 0
    /\ steps = MaxGameSteps
    /\ last = [op |-> "init", x |-> 0, y |-> 0, ret |-> "None", ball |-> None]
    /\ is_dragging = FALSE

\* the engine is left alone: a handler that returns without calling it
NoCall(name, mx, my) ==
    /\ last' = [op |-> name, x |-> mx, y |-> my, ret |-> "None",
                ball |-> None]
    /\ UNCHANGED <<screen_width, screen_height, objs, balls, inventory,
                   dragged_ball, drag_offset_x, drag_offset_y, created>>

handle_mouse_down ==
    /\ Tick
    /\ \E m \in GamePoints :
          /\ start_drag_call(m[1], m[2])
          /\ is_dragging' = (is_dragging \/ last'.ret = "True")

\* an exception of end_drag leaves the handler before is_dragging is reset
handle_mouse_up ==
    /\ Tick
    /\ \E m \in GamePoints :
          IF is_dragging
          THEN /\ end_drag_call(m[1], m[2])
               /\ is_dragging' = (last'.ret = "ValueError")
          ELSE /\ NoCall("handle_mouse_up", m[1], m[2])
               /\ UNCHANGED is_dragging

handle_mouse_drag ==
    /\ Tick
    /\ UNCHANGED is_dragging
    /\ \E m \in GamePoints :
          IF is_dragging
          THEN drag_ball_call(m[1], m[2])
          ELSE NoCall("handle_mouse_drag", m[1], m[2])

NextGame ==
    \/ handle_mouse_down
    \/ handle_mouse_up
    \/ handle_mouse_drag

SpecGame == InitGame /\ [][NextGame]_vars

\* =================================================================== claims
\* the live entities, the position of a handle in a list, and list shape
Live == Range(balls) \cup Range(inventory)
Dragged == {h \in DOMAIN objs : objs[h].state = BEING_DRAGGED}
PosIn(seq, h) == CHOOSE i \in DOMAIN seq : seq[i] = h
NoDuplicates(seq) ==
    \A i, j \in DOMAIN seq : i # j => seq[i] # seq[j]
Overlap(a, b) ==
    Dist2(a.x, a.y, b.x, b.y) < (a.radius + b.radius) * (a.radius + b.radius)

\* C1: at most one entity is BEING_DRAGGED, and an entity is BEING_DRAGGED
\* exactly when dragged_ball refers to it.
C1_SingleDragged ==
    /\ Cardinality(Dragged) <= 1
    /\ \A h \in DOMAIN objs : (h \in Dragged) <=> (h = dragged_ball)
    /\ (dragged_ball = None) <=> (Dragged = {})

\* C2: every live entity is in exactly one place (active and FREE, active
\* and BEING_DRAGGED, or inventory and IN_INVENTORY), never in both lists,
\* and never twice in a list.
C2_OnePlace ==
    /\ DOMAIN objs = Live
    /\ Range(balls) \cap Range(inventory) = {}
    /\ \A h \in Range(balls) : objs[h].state \in {FREE, BEING_DRAGGED}
    /\ \A h \in Range(inventory) : objs[h].state = IN_INVENTORY
    /\ NoDuplicates(balls)
    /\ NoDuplicates(inventory)

C2_Witness ==
    /\ Len(inventory) >= 1
    /\ \E h \in Range(balls) : objs[h].state = BEING_DRAGGED
    /\ last.op = "start_drag"

\* C3: start_drag while a drag is in progress returns failure and changes
\* neither dragged_ball, the drag offset, nor any entity.
C3_SecondDragRejected ==
    [][(dragged_ball # None /\ last'.op = "start_drag")
         => /\ last'.ret = "False"
            /\ dragged_ball' = dragged_ball
            /\ drag_offset_x' = drag_offset_x
            /\ drag_offset_y' = drag_offset_y
            /\ objs' = objs]_vars

\* C4: with a drag in progress end_drag deletes the entity when released in
\* the delete zone, else moves it to the inventory when released within the
\* inventory target, else returns it to the active list as FREE; in all three
\* cases dragged_ball is None afterwards.
C4_EndDragOutcomes ==
    [][(dragged_ball # None /\ last'.op = "end_drag")
         => /\ dragged_ball' = None
            /\ IF is_in_delete_zone(last'.x, last'.y)
               THEN dragged_ball \notin Range(balls') \cup Range(inventory')
               ELSE IF is_in_inventory_target(last'.x, last'.y)
               THEN /\ dragged_ball \in Range(inventory')
                    /\ dragged_ball \notin Range(balls')
                    /\ objs'[dragged_ball].state = IN_INVENTORY
               ELSE /\ dragged_ball \in Range(balls')
                    /\ dragged_ball \notin Range(inventory')
                    /\ objs'[dragged_ball].state = FREE]_vars

\* C5: after a drag released in the delete zone no entity with the dragged
\* entity's id remains in the active list or the inventory, and all other
\* entities are left in place.
C5_DragToDelete ==
    [][(dragged_ball # None /\ last'.op = "end_drag"
            /\ is_in_delete_zone(last'.x, last'.y))
         => /\ \A h \in Range(balls') \cup Range(inventory') :
                  objs'[h].id # objs[dragged_ball].id
            /\ balls' = RemoveAt(balls, PosIn(balls, dragged_ball))
            /\ inventory' = inventory]_vars

\* C6: a drag released within the inventory target and outside the delete
\* zone removes exactly the dragged entity from the active list, appends that
\* entity at the end of the inventory with state IN_INVENTORY, and keeps the
\* order of all other entries of both lists.
C6_DragToInventory ==
    [][(dragged_ball # None /\ last'.op = "end_drag"
            /\ ~is_in_delete_zone(last'.x, last'.y)
            /\ is_in_inventory_target(last'.x, last'.y))
         => /\ balls' = RemoveAt(balls, PosIn(balls, dragged_ball))
            /\ Len(balls') = Len(balls) - 1
            /\ inventory' = Append(inventory, dragged_ball)
            /\ Len(inventory') = Len(inventory) + 1
            /\ objs'[dragged_ball].state = IN_INVENTORY]_vars

C6_Witness ==
    /\ last.op = "end_drag"
    /\ last.ret = "True"
    /\ ~is_in_delete_zone(last.x, last.y)
    /\ is_in_inventory_target(last.x, last.y)
    /\ Len(inventory) >= 2
    /\ inventory[Len(inventory)] = last.ball

\* C7: a drag released outside the delete zone and the inventory target
\* leaves the entity in the active list at its position with state FREE and
\* velocity (cursor - position) * 0.1 in each component.
C7_ReturnFlick ==
    [][(dragged_ball # None /\ last'.op = "end_drag"
            /\ ~is_in_delete_zone(last'.x, last'.y)
            /\ ~is_in_inventory_target(last'.x, last'.y))
         => /\ balls' = balls
            /\ inventory' = inventory
            /\ objs'[dragged_ball].state = FREE
            /\ objs'[dragged_ball].x = objs[dragged_ball].x
            /\ objs'[dragged_ball].y = objs[dragged_ball].y
            /\ objs'[dragged_ball].vx =
                   TruncDiv(last'.x - objs[dragged_ball].x, 10)
            /\ objs'[dragged_ball].vy =
                   TruncDiv(last'.y - objs[dragged_ball].y, 10)]_vars

C7_Witness ==
    /\ last.op = "end_drag"
    /\ last.ret = "False"
    /\ last.ball \in Range(balls)
    /\ objs[last.ball].state = FREE
    /\ objs[last.ball].vx # 0
    /\ objs[last.ball].vx = TruncDiv(last.x - objs[last.ball].x, 10)

\* C8: eject with an index outside 0..len(inventory)-1 returns False and
\* changes no list and no entity; with an index in range it returns True,
\* removes exactly that entry from the inventory keeping the order of the
\* rest, and appends that entity with state FREE to the active list.
C8_Eject ==
    [][last'.op = "eject"
         => IF last'.x < 0 \/ last'.x >= Len(inventory)
            THEN /\ last'.ret = "False"
                 /\ balls' = balls
                 /\ inventory' = inventory
                 /\ objs' = objs
            ELSE /\ last'.ret = "True"
                 /\ inventory' = RemoveAt(inventory, last'.x + 1)
                 /\ balls' = Append(balls, inventory[last'.x + 1])
                 /\ objs'[inventory[last'.x + 1]].state = FREE]_vars

C8_Witness ==
    /\ last.op = "eject"
    /\ last.ret = "True"
    /\ last.x = 0
    /\ Len(inventory) >= 1
    /\ Len(balls) >= 1
    /\ balls[Len(balls)] = last.ball
    /\ objs[last.ball].state = FREE

\* C9: update leaves every BEING_DRAGGED entity and every inventory entity
\* unchanged, even when a FREE entity overlaps the dragged one, and leaves
\* the two lists, dragged_ball and the drag offset unchanged.
C9_UpdateFrame ==
    [][last'.op = "update"
         => /\ \A h \in DOMAIN objs :
                  objs[h].state # FREE => objs'[h] = objs[h]
            /\ balls' = balls
            /\ inventory' = inventory
            /\ dragged_ball' = dragged_ball
            /\ drag_offset_x' = drag_offset_x
            /\ drag_offset_y' = drag_offset_y]_vars

C9_Witness ==
    /\ last.op = "update"
    /\ dragged_ball # None
    /\ \E h \in Range(balls) :
          /\ objs[h].state = FREE
          /\ Overlap(objs[h], objs[dragged_ball])
          /\ objs[h].color # objs[dragged_ball].color

\* C10: no two live entities have the same id, and the id of an entity never
\* changes while it lives.
C10_UniqueStableIds ==
    [][/\ \A g, h \in DOMAIN objs' : g # h => objs'[g].id # objs'[h].id
       /\ \A h \in (DOMAIN objs) \cap (DOMAIN objs') :
             objs'[h].id = objs[h].id]_vars
\* C11: update, start_drag, drag_ball, eject and an end_drag that resolves to
\* the inventory or to a return leave the live entities (active list plus
\* inventory) and their number unchanged; add_ball adds exactly one.
LiveCount == Len(balls) + Len(inventory)

C11_DestroyedOnlyByDeleteOrClear ==
    [][/\ last'.op \in {"update", "start_drag", "drag_ball", "eject"}
            => Live' = Live /\ LiveCount' = LiveCount
       /\ (last'.op = "end_drag"
              /\ ~(dragged_ball # None /\ is_in_delete_zone(last'.x, last'.y)))
            => Live' = Live /\ LiveCount' = LiveCount
       /\ last'.op = "add_ball"
            => /\ LiveCount' = LiveCount + 1
               /\ Live \subseteq Live'
               /\ Cardinality(Live' \ Live) = 1]_vars

C11_Witness ==
    /\ last.op = "eject"
    /\ last.ret = "True"
    /\ last.ball \in Range(balls)
    /\ LiveCount >= 2
\* C12: an entity's state changes only along the drag state machine: FREE to
\* BEING_DRAGGED only by start_drag; BEING_DRAGGED to FREE, to IN_INVENTORY
\* or to removed only by end_drag (clear_all_balls, the full clear, aside);
\* IN_INVENTORY to FREE only by eject; no other change of state; and no
\* entity is BEING_DRAGGED once end_drag has returned.
C12_DragStateMachine ==
    [][/\ \A h \in (DOMAIN objs) \cap (DOMAIN objs') :
             LET s == objs[h].state
                 t == objs'[h].state
             IN  s # t =>
                   \/ s = FREE /\ t = BEING_DRAGGED /\ last'.op = "start_drag"
                   \/ s = BEING_DRAGGED /\ t \in {FREE, IN_INVENTORY}
                        /\ last'.op = "end_drag"
                   \/ s = IN_INVENTORY /\ t = FREE /\ last'.op = "eject"
       /\ \A h \in (DOMAIN objs) \ (DOMAIN objs') :
             \/ last'.op = "clear_all_balls"
             \/ objs[h].state = BEING_DRAGGED /\ last'.op = "end_drag"
       /\ last'.op = "end_drag"
            => \A h \in DOMAIN objs' : objs'[h].state # BEING_DRAGGED]_vars
\* C13: every colour channel of every entity is an integer in 0..255 in every
\* reachable state, and Color construction brings any integer channel into
\* that range (leaving a channel already in range as it is).
InRange(c) == c \in 0 .. 255
GeneratedColors == {generate_random_color(d.rgb, d.t) : d \in RandDraws}

C13_ChannelsInRange ==
    /\ \A h \in DOMAIN objs :
          /\ InRange(objs[h].color.r)
          /\ InRange(objs[h].color.g)
          /\ InRange(objs[h].color.b)
    /\ \A c \in ((0 - ChannelProbe) .. ChannelProbe)
                   \cup ((255 - ChannelProbe) .. (255 + ChannelProbe)) :
          /\ InRange(Color(c, c, c).r)
          /\ InRange(c) => Color(c, 0, 255) = [r |-> c, g |-> 0, b |-> 255]

\* a collision of update has mixed two generated colours, one of them
\* generated with a channel that the rescaling pushed above 255
C13_Witness ==
    /\ last.op = "update"
    /\ \E d \in RandDraws :
          Rescale(d.rgb[1], d.t, Color(d.rgb[1], d.rgb[2], d.rgb[3])) > 255
    /\ \E h \in Range(balls) :
          /\ objs[h].color \notin GeneratedColors
          /\ objs[h].color.r > 229
Damped(v) == TruncDiv(Abs(v) * 8, 10)

C19_BoundaryReflection ==
    \A h \in Range(balls) :
       LET pre  == objs[h]
           post == check_boundaries(objs, h, screen_width, screen_height)[h]
           W    == Px(screen_width)
           H    == Px(screen_height)
       IN  /\ pre.x - pre.radius < 0
                => /\ post.x = pre.radius
                   /\ post.vx = Damped(pre.vx) /\ post.vx >= 0
           /\ pre.x + pre.radius > W
                => /\ post.x = W - pre.radius
                   /\ post.vx = 0 - Damped(pre.vx) /\ post.vx <= 0
           /\ pre.y - pre.radius < 0
                => /\ post.y = pre.radius
                   /\ post.vy = Damped(pre.vy) /\ post.vy >= 0
           /\ pre.y + pre.radius > H
                => /\ post.y = H - pre.radius
                   /\ post.vy = 0 - Damped(pre.vy) /\ post.vy <= 0

\* update has bounced one ball off the left wall and one off the bottom wall
C19_Witness ==
    /\ last.op = "update"
    /\ \E h \in Range(balls) : objs[h].x = objs[h].radius /\ objs[h].vx > 0
    /\ \E h \in Range(balls) :
          /\ objs[h].y = Px(screen_height) - objs[h].radius
          /\ objs[h].vy < 0
\* C18: one collision pass on two FREE entities with 0 < distance <
\* radiusA + radiusB gives both the color mix(original_a, original_b) and
\* moves the centres apart along their axis by the same amount in opposite
\* directions, so that the midpoint is unchanged and the centres end
\* radiusA + radiusB apart (within SepTol fixed-point units); when the
\* centres coincide the pass changes nothing.
Overlapping(a, b) ==
    LET d2 == Dist2(objs[a].x, objs[a].y, objs[b].x, objs[b].y)
        m  == objs[a].radius + objs[b].radius
    IN  objs[a].state = FREE /\ objs[b].state = FREE /\ 0 < d2 /\ d2 < m * m

C18_CollisionCorrection ==
    \A a, b \in Range(balls) :
       (a # b /\ objs[a].state = FREE /\ objs[b].state = FREE
             /\ objs[a] # objs[b]) =>
       LET post == CollidePair(objs, a, b)
           m    == objs[a].radius + objs[b].radius
           d2   == Dist2(objs[a].x, objs[a].y, objs[b].x, objs[b].y)
           e2   == Dist2(post[a].x, post[a].y, post[b].x, post[b].y)
           mix  == mix_with(objs[a].color, objs[b].color)
       IN  /\ Overlapping(a, b) =>
                /\ post[a].color = mix /\ post[b].color = mix
                /\ post[a].x + post[b].x = objs[a].x + objs[b].x
                /\ post[a].y + post[b].y = objs[a].y + objs[b].y
                /\ (m - SepTol) * (m - SepTol) <= e2
                /\ e2 <= (m + SepTol) * (m + SepTol)
                /\ (post[a].x - post[b].x) * (objs[a].y - objs[b].y)
                     - (post[a].y - post[b].y) * (objs[a].x - objs[b].x)
                     \in (0 - 2 * m) .. (2 * m)
                /\ \A h \in DOMAIN objs : h \notin {a, b} => post[h] = objs[h]
                /\ \A h \in {a, b} :
                      /\ post[h].vx = objs[h].vx /\ post[h].vy = objs[h].vy
                      /\ post[h].radius = objs[h].radius
           /\ d2 = 0 => post = objs

\* after an update two FREE balls of different colours overlap at a positive
\* distance by more than the allowance
C18_Witness ==
    /\ last.op = "update"
    /\ \E a, b \in Range(balls) :
          /\ Overlapping(a, b)
          /\ objs[a].color # objs[b].color
          /\ SepTol < objs[a].radius + objs[b].radius
                        - Sqrt(Dist2(objs[a].x, objs[a].y, objs[b].x, objs[b].y))

\* two different FREE balls with one centre, with an update still to come
C18_WitnessCoincident ==
    /\ steps > 0
    /\ \E a, b \in Range(balls) :
          /\ a # b /\ objs[a] # objs[b]
          /\ objs[a].x = objs[b].x /\ objs[a].y = objs[b].y
\* The de-duplicated update of C15: the loop of update, with the collision
\* scan of the ball at index i restricted to the balls at indices j > i.
DedupBall(o, bs, i, dt, w, h) ==
    IF o[bs[i]].state = FREE
    THEN check_boundaries(
             CollideFrom(update_ball_physics(o, bs[i], dt), bs, bs[i], i + 1),
             bs[i], w, h)
    ELSE o

RECURSIVE DedupFrom(_, _, _, _, _, _)
DedupFrom(o, bs, i, dt, w, h) ==
    IF i > Len(bs) THEN o
    ELSE DedupFrom(DedupBall(o, bs, i, dt, w, h), bs, i + 1, dt, w, h)

\* C15 as stated: one update(dt) with the code's scan yields the same
\* positions, velocities and colors as the update that processes each
\* unordered pair once in index order (i < j).
C15_DedupEquivalent ==
    [][last'.op = "update" =>
          objs' = DedupFrom(objs, balls, 1, last'.x,
                            screen_width, screen_height)]_vars

\* the second visits of the code's scan (the ball at index i, after its
\* integration, against the balls at indices j < i) all find nothing to do
RECURSIVE SecondVisitsIdle(_, _, _, _, _, _)
SecondVisitsIdle(o, bs, i, dt, w, h) ==
    IF i > Len(bs) THEN TRUE
    ELSE /\ o[bs[i]].state = FREE =>
               LET o1 == update_ball_physics(o, bs[i], dt)
               IN  \A j \in 1 .. (i - 1) : CollidePair(o1, bs[i], bs[j]) = o1
         /\ SecondVisitsIdle(UpdateBall(o, bs, bs[i], dt, w, h),
                             bs, i + 1, dt, w, h)

\* C15, amended: one update(dt) with the code's scan yields the same
\* positions, velocities and colors as the update that processes each
\* unordered pair once in index order (i < j) whenever no second visit of a
\* pair (made after the later ball's integration) finds the pair overlapping.
C15_DedupEquivalentWhenIdle ==
    [][(/\ last'.op = "update"
        /\ SecondVisitsIdle(objs, balls, 1, last'.x,
                            screen_width, screen_height)) =>
          objs' = DedupFrom(objs, balls, 1, last'.x,
                            screen_width, screen_height)]_vars

\* a state from which the next update makes a first-visit collision that
\* mixes two different colours while every second visit is idle
C15_Witness ==
    /\ steps > 0
    /\ \E dt \in DtDraws :
          /\ SecondVisitsIdle(objs, balls, 1, dt, screen_width, screen_height)
          /\ LET d == DedupFrom(objs, balls, 1, dt,
                                screen_width, screen_height)
             IN  \E a, b \in Range(balls) :
                    /\ objs[a].color # objs[b].color
                    /\ d[a].color = d[b].color
\* C20: start_drag(px, py) with no drag in progress selects the last-inserted
\* FREE entity whose centre is within its radius of (px, py): that entity
\* alone becomes BEING_DRAGGED, dragged_ball refers to it, the offset is
\* entityPos - cursorPos and True is returned; when no FREE entity contains
\* the point it returns False and changes no state.
Under(px, py) ==
    {k \in 1 .. Len(balls) :
        /\ objs[balls[k]].state = FREE
        /\ Dist2(objs[balls[k]].x, objs[balls[k]].y, px, py)
             <= objs[balls[k]].radius * objs[balls[k]].radius}

C20_StartDragTopmost ==
    [][(last'.op = "start_drag" /\ dragged_ball = None) =>
          LET hits == Under(last'.x, last'.y)
          IN  IF hits # {}
              THEN LET top == CHOOSE k \in hits : \A l \in hits : l <= k
                       b   == balls[top]
                   IN  /\ last'.ret = "True"
                       /\ dragged_ball' = b
                       /\ objs' = [objs EXCEPT ![b].state = BEING_DRAGGED]
                       /\ drag_offset_x' = objs[b].x - last'.x
                       /\ drag_offset_y' = objs[b].y - last'.y
                       /\ balls' = balls /\ inventory' = inventory
              ELSE /\ last'.ret = "False"
                   /\ UNCHANGED <<objs, balls, inventory, dragged_ball,
                                  drag_offset_x, drag_offset_y>>]_vars

\* start_drag has grabbed the later of two FREE balls under the cursor, with
\* the cursor off the centre of the grabbed ball
C20_Witness ==
    /\ last.op = "start_drag" /\ last.ret = "True"
    /\ dragged_ball = last.ball
    /\ objs[dragged_ball].state = BEING_DRAGGED
    /\ drag_offset_x # 0
    /\ \E k \in Under(last.x, last.y) :
          \E l \in (k + 1) .. Len(balls) : balls[l] = dragged_ball
    /\ \A h \in DOMAIN objs : h # dragged_ball => objs[h].state # BEING_DRAGGED
\* C16: Color.mix_with returns the per-channel truncated integer average
\* floor((a + b) / 2), so that mixing (255,0,0) with (0,0,255) gives
\* (127,0,127); it is commutative, mix(a,b) = mix(b,a), and idempotent,
\* mix(a,a) = a.
FloorAverage(a, b) ==
    [r |-> (a.r + b.r) \div 2, g |-> (a.g + b.g) \div 2,
     b |-> (a.b + b.b) \div 2]

C16_MixWith ==
    [][last'.op = "mix_with" =>
          LET a == objs[balls[1]].color
              b == objs[balls[2]].color
              m == objs'[balls[1]].color
          IN  /\ m = FloorAverage(a, b)
              /\ objs'[balls[2]].color = m
              /\ mix_with(a, b) = mix_with(b, a)
              /\ mix_with(a, a) = a /\ mix_with(b, b) = b
              /\ a = b => m = a
              /\ (a = [r |-> 255, g |-> 0, b |-> 0]
                    /\ b = [r |-> 0, g |-> 0, b |-> 255])
                   => m = [r |-> 127, g |-> 0, b |-> 127]]_vars

\* the first step has mixed two balls to (127,0,127)
C16_Witness ==
    /\ last.op = "mix_with" /\ steps = MaxColorSteps - 1
    /\ \A h \in Range(balls) : objs[h].color = [r |-> 127, g |-> 0, b |-> 127]

\* C17: get_ball_quality_score returns a value in [0,1] for every color,
\* exactly 0 for every near-white color (all channels > 200), also when its
\* saturation is below 0.1, and exactly 0.1 for every color that is not
\* near-white and has saturation below 0.1.
NearWhite(c) == \A ch \in {c.r, c.g, c.b} : ch > 200

Spread(c) ==
    LET S == {c.r, c.g, c.b}
    IN  (CHOOSE hi \in S : \A ch \in S : ch <= hi)
          - (CHOOSE lo \in S : \A ch \in S : lo <= ch)

\* saturation = spread / 255 < 0.1
LowSaturation(c) == 10 * Spread(c) < 255

C17_QualityScore ==
    last.op = "get_ball_quality_score" =>
       LET c == objs[last.ball].color
       IN  /\ last.y > 0 /\ 0 <= last.x /\ last.x <= last.y
           /\ NearWhite(c) => last.x = 0
           /\ (~NearWhite(c) /\ LowSaturation(c)) => 10 * last.x = last.y

\* the score of a near-white color of saturation below 0.1 has been taken
C17_Witness ==
    /\ last.op = "get_ball_quality_score"
    /\ NearWhite(objs[last.ball].color)
    /\ LowSaturation(objs[last.ball].color)
    /\ last.x = 0

\* the score of a gray that is not near-white has been taken
C17_WitnessFloor ==
    /\ last.op = "get_ball_quality_score"
    /\ ~NearWhite(objs[last.ball].color)
    /\ LowSaturation(objs[last.ball].color)
    /\ objs[last.ball].color.r = 200

\* the score of a saturated color has been taken and is above one half
C17_WitnessSaturated ==
    /\ last.op = "get_ball_quality_score"
    /\ ~LowSaturation(objs[last.ball].color)
    /\ 2 * last.x > last.y
\* C22: after every update(dt), every FREE entity of the active list whose
\* diameter fits in the arena lies inside the arena: radius <= x <=
\* screen_width - radius and radius <= y <= screen_height - radius,
\* regardless of how many entities overlap during that step.
InsideArena(h) ==
    /\ objs[h].radius <= objs[h].x
    /\ objs[h].x <= Px(screen_width) - objs[h].radius
    /\ objs[h].radius <= objs[h].y
    /\ objs[h].y <= Px(screen_height) - objs[h].radius

C22_InsideAfterUpdate ==
    last.op = "update" =>
       \A h \in Range(balls) :
          (/\ objs[h].state = FREE
           /\ 2 * objs[h].radius <= Px(screen_width)
           /\ 2 * objs[h].radius <= Px(screen_height)) => InsideArena(h)
\* C21: the delete outcome of end_drag is taken only when the release point
\* lies inside the rectangle reported by get_delete_zone_info (0 <= x <=
\* width, y between the zone's y and y + height); a release point outside
\* it, also one whose x is outside [0, width], never deletes the entity.
InDeleteRect(x, y) ==
    LET z == get_delete_zone_info
    IN  /\ 0 <= x /\ x <= z.width
        /\ z.y <= y /\ y <= z.y + z.height

C21_DeleteOnlyInRect ==
    [][(last'.op = "end_drag" /\ dragged_ball # None
          /\ ~InDeleteRect(last'.x, last'.y)) =>
          /\ LiveCount' = LiveCount
          /\ dragged_ball \in Live']_vars
\* C23: the inventory drop target drawn by BallGame.draw_ui is the one the
\* engine tests: releasing a dragged entity at any point inside the drawn
\* circle, its centre included, makes end_drag move the entity to the
\* inventory.
InDrawnCircle(x, y) ==
    Dist2(x, y, drawn_inventory_x, drawn_inventory_y)
        <= Px(drawn_inventory_radius) * Px(drawn_inventory_radius)

C23_DrawnTargetIsTested ==
    [][(/\ last'.op = "end_drag" /\ is_dragging
        /\ dragged_ball # None
        /\ objs[dragged_ball].state = BEING_DRAGGED
        /\ InDrawnCircle(last'.x, last'.y)) =>
          /\ dragged_ball \in Range(inventory')
          /\ dragged_ball \notin Range(balls')
          /\ objs'[dragged_ball].state = IN_INVENTORY]_vars
====
